---- MODULE Spec2Model ----
(***************************************************************************)
(* Model of scripts/sync-org-repositories.py: the guarded GitHub request   *)
(* layer, the file reconciler, the per-repository contribution driver      *)
(* (sync_repository) and the batch runner (main).                          *)
(*                                                                         *)
(* Text is modelled as sequences of one-character strings, so that the     *)
(* regular expressions of the allow-list are matched character by          *)
(* character, as re.match does.                                            *)
(***************************************************************************)
EXTENDS Integers, Sequences, FiniteSets, TLC

VARIABLES
    \* ---- github_api_request called on its own (the Remote Gateway) ----
    gw_pc,            \* "call" before the request, "returned" after
    gw_endpoint,      \* the endpoint argument
    gw_method,        \* the method argument
    gw_status,        \* the status code returned (0 before the call)
    network_calls,    \* number of requests.request calls performed
    gw_caller,        \* the operation that makes the request ("direct": none)
    gw_remote,        \* the status the remote gives the request if it is sent
    gw_return,        \* what the calling operation returns ("none" before)
    \* ---- inputs of a run ----
    GITHUB_TOKEN,     \* TRUE when the credential is set (truthy)
    args,             \* parsed command line: org, dry_run, repos
    config,           \* the loaded sync configuration (a mapping)
    source_tree,      \* canonical source tree: path -> content or Absent
    \* ---- main ----
    pc,               \* position of main (or of the driver of a scenario)
    user_resp,        \* status, body and login answered to GET /user (0 before)
    fork_owner,       \* result of get_authenticated_user
    peribolos_data,   \* the fetched manifest (NotFetched before)
    repositories,     \* the list main iterates
    idx,              \* index of the next repository of the batch loop
    success_count,
    calls,            \* repositories sync_repository was invoked for, in order
    verdicts,         \* what each finished call gave: "true", "false", "raised"
    \* ---- remote state of the repository being processed ----
    upstream_tree,    \* tree of the upstream repository's main branch
    fork_tree,        \* tree of the fork's main branch
    \* ---- sync_repository (one attempt) ----
    spc,              \* position inside sync_repository
    repo_name,
    dry_run,
    tmpdir,           \* TRUE while the attempt's temporary directory exists
    stale_dirs,       \* temporary directories that earlier attempts left behind
    tree,             \* the cloned working tree (NoTree before the clone)
    files_changed,
    branch_name,
    status,           \* statuses answered to this attempt's API requests
    pushed,           \* the branch this attempt pushed to the fork (NoPush if none)
    ops,              \* operations performed by this attempt, in order
    result,           \* "none", "true", "false" or "raised"
    \* ---- scenario bookkeeping (repeated runs on fixed inputs) ----
    run,              \* number of the current run of the scenario
    history           \* per finished run: its changed-file list and verdict

gwVars   == <<gw_pc, gw_endpoint, gw_method, gw_status, network_calls,
              gw_caller, gw_remote, gw_return>>
inVars   == <<GITHUB_TOKEN, args, config, source_tree>>
mainVars == <<pc, user_resp, fork_owner, peribolos_data, repositories, idx,
              success_count, calls, verdicts>>
remVars  == <<upstream_tree, fork_tree>>
srVars   == <<spc, repo_name, dry_run, tmpdir, stale_dirs, tree, files_changed,
              branch_name, status, pushed, ops, result>>
scVars   == <<run, history>>
vars     == <<gwVars, inVars, mainVars, remVars, srVars, scVars>>

-----------------------------------------------------------------------------
(* Bounds of the model *)

MaxRepos == 2      \* longest repository list of the manifest
MaxRules == 2      \* longest files_to_sync list of the scenario runs

-----------------------------------------------------------------------------
(* Text *)

NL == "\n"

GITHUB_API ==
    <<"h","t","t","p","s",":","/","/","a","p","i",".","g","i","t","h","u","b",".","c","o","m">>

W_user  == <<"u","s","e","r">>
W_repos == <<"r","e","p","o","s">>
W_forks == <<"f","o","r","k","s">>
W_pulls == <<"p","u","l","l","s">>
W_git   == <<"g","i","t">>
W_refs  == <<"r","e","f","s">>
W_heads == <<"h","e","a","d","s">>
SL      == <<"/">>

\* f"{a}/{b}/..." : the parts joined, each preceded by a slash
RECURSIVE SlashJoin(_)
SlashJoin(parts) ==
    IF parts = <<>> THEN <<>>
    ELSE SL \o Head(parts) \o SlashJoin(Tail(parts))

-----------------------------------------------------------------------------
(* Regular expressions, as the re module matches them.                     *)
(* A pattern is a sequence of elements:                                    *)
(*   [t |-> "lit", c |-> cs]   the characters cs, literally                *)
(*   [t |-> "dot"]             .      any character but a newline          *)
(*   [t |-> "seg"]             [^/]+  one or more characters, none a slash *)
(*   [t |-> "rest"]            .+     one or more characters, no newline   *)
(* and every pattern of the allow-list ends with $.                        *)

\* A literal text: one element that matches exactly these characters
Lit(s) == <<[t |-> "lit", c |-> s]>>

\* the length of the longest prefix of s that has no dot
RECURSIVE DotFree(_)
DotFree(s) ==
    IF s = <<>> \/ Head(s) = "." THEN 0 ELSE 1 + DotFree(Tail(s))

\* A string concatenated into a pattern unescaped: its dots are wildcards.
RECURSIVE Raw(_)
Raw(s) ==
    IF s = <<>> THEN <<>>
    ELSE IF Head(s) = "." THEN <<[t |-> "dot"]>> \o Raw(Tail(s))
    ELSE Lit(SubSeq(s, 1, DotFree(s))) \o Raw(SubSeq(s, DotFree(s) + 1, Len(s)))

Seg  == <<[t |-> "seg"]>>
Rest == <<[t |-> "rest"]>>

\* $ : the end of the string, or just before a newline that ends the string
AtEnd(s, j) == \/ j = Len(s) + 1
               \/ (j = Len(s) /\ s[j] = NL)

RECURSIVE MatchFrom(_, _, _, _)
MatchFrom(p, i, s, j) ==
    IF i > Len(p) THEN AtEnd(s, j)
    ELSE CASE p[i].t = "lit" ->
                 /\ j + Len(p[i].c) - 1 <= Len(s)
                 /\ SubSeq(s, j, j + Len(p[i].c) - 1) = p[i].c
                 /\ MatchFrom(p, i + 1, s, j + Len(p[i].c))
           [] p[i].t = "dot" ->
                 j <= Len(s) /\ s[j] # NL /\ MatchFrom(p, i + 1, s, j + 1)
           [] p[i].t = "seg" ->
                 \E k \in (j + 1)..(Len(s) + 1) :
                     /\ \A m \in j..(k - 1) : s[m] # "/"
                     /\ MatchFrom(p, i + 1, s, k)
           [] p[i].t = "rest" ->
                 \E k \in (j + 1)..(Len(s) + 1) :
                     /\ \A m \in j..(k - 1) : s[m] # NL
                     /\ MatchFrom(p, i + 1, s, k)

\* re.match(pattern, endpoint) for a pattern "^...$" (the pattern and the
\* string are evaluated once, then matched)
re_match(pattern, s) ==
    \E p \in {pattern}, t \in {s} : MatchFrom(p, 1, t, 1)

-----------------------------------------------------------------------------
(* The Remote Gateway *)

allowed_patterns ==
    << [pattern |-> Raw(GITHUB_API) \o Lit(SL \o W_user), method |-> "GET"],
       [pattern |-> Raw(GITHUB_API) \o Lit(SL \o W_repos \o SL) \o Seg \o Lit(SL) \o Seg,
        method |-> "GET"],
       [pattern |-> Raw(GITHUB_API) \o Lit(SL \o W_repos \o SL) \o Seg \o Lit(SL) \o Seg
                       \o Lit(SL \o W_forks),
        method |-> "POST"],
       [pattern |-> Raw(GITHUB_API) \o Lit(SL \o W_repos \o SL) \o Seg \o Lit(SL) \o Seg
                       \o Lit(SL \o W_pulls),
        method |-> "POST"],
       [pattern |-> Raw(GITHUB_API) \o Lit(SL \o W_repos \o SL) \o Seg \o Lit(SL) \o Seg
                       \o Lit(SL \o W_git \o SL \o W_refs \o SL \o W_heads \o SL) \o Rest,
        method |-> "DELETE"] >>

validate_github_api_request(endpoint, method) ==
    \E n \in 1..Len(allowed_patterns) :
        /\ re_match(allowed_patterns[n].pattern, endpoint)
        /\ method = allowed_patterns[n].method

\* Statuses a request that reaches the network can come back with: the remote's
\* answers, and the synthetic 500 of a transport failure (RequestException).
HttpStatuses == {200, 201, 202, 204, 403, 404, 422, 500}

\* github_api_request: the status returned when the network, if reached,
\* answers `remote`.
github_api_request(endpoint, method, remote) ==
    IF ~validate_github_api_request(endpoint, method) THEN 403 ELSE remote

\* TRUE when github_api_request performs requests.request for this call
reaches_network(endpoint, method) == validate_github_api_request(endpoint, method)

-----------------------------------------------------------------------------
(* Data *)

\* Python's None among texts: a text no real text equals
None == <<"None">>

\* "not x" for an Optional[str]: None and the empty string are falsy
Falsy(x) == x = None \/ x = <<>>

\* Relative paths of the canonical source tree and of a target tree, and
\* the contents a file can have.  A tree maps every path to its content, or
\* to Absent when no file is there.
Paths    == {"A", "B"}
Contents == {"x", "y"}
Absent   == "absent"
Trees    == [Paths -> Contents \cup {Absent}]
NoTree   == [p \in Paths |-> "no tree"]

\* A mapping loaded from YAML is a record that carries the set of keys it
\* has; d.get(k, default) reads a key that may be missing.
Get(d, k, default) == IF k \in d.keys THEN d[k] ELSE default

\* One entry of files_to_sync
FileRule(src, dst, excl, ks) ==
    [keys |-> {"source"} \cup ks, source |-> src, destination |-> dst,
     exclude_repos |-> excl]

\* The sync configuration.  broken names the part of the document that is
\* not of the type the program reads it as ("no": none is): "document" when
\* yaml.safe_load gives no mapping (an empty file gives None),
\* "exclude_repos" when that key holds null.
Config(ks, rules, excl) ==
    [keys |-> ks, files_to_sync |-> rules, exclude_repos |-> excl, broken |-> "no"]

\* the same document with one part of another type
Broken(doc, part) == [doc EXCEPT !.broken = part]

\* Repository, organization and account names
R1        == <<"r","1">>
R2        == <<"r","2">>
ORG_INFRA == <<"o","r","g","-","i","n","f","r","a">>
ORG       == <<"a","c","m","e">>
OTHER_ORG == <<"o","t","h","e","r">>
BOT       == <<"b","o","t">>

\* Sequences over S of length at most n, and those without repetition
SeqsUpTo(S, n) == UNION {[1..k -> S] : k \in 0..n}
DistinctSeqsUpTo(S, n) ==
    {q \in SeqsUpTo(S, n) : \A i, j \in 1..Len(q) : q[i] = q[j] => i = j}

SeqToSet(q) == {q[i] : i \in 1..Len(q)}

-----------------------------------------------------------------------------
(* The File Reconciler *)

\* compare_files: TRUE when the destination exists and is byte-identical
compare_files(source_content, dest_content) ==
    IF dest_content = Absent THEN FALSE
    ELSE source_content = dest_content

\* sync_file: copy unless the destination exists and is identical; returns
\* whether it copied, and the tree afterwards
sync_file(source_content, t, dest_rel_path) ==
    IF t[dest_rel_path] # Absent /\ compare_files(source_content, t[dest_rel_path])
    THEN [copied |-> FALSE, tree |-> t]
    ELSE [copied |-> TRUE, tree |-> [t EXCEPT ![dest_rel_path] = source_content]]

\* (mutant) the loop body without the check of lines 398-400: a rule whose
\* source is absent is compared and copied like any other
reconcile_rule_copies_absent_source(file_config, src, repo, dry, st) ==
    LET source_rel_path == file_config.source
        dest_rel_path   == Get(file_config, "destination", source_rel_path)
    IN  IF "exclude_repos" \in file_config.keys
                /\ repo \in file_config.exclude_repos THEN st
        ELSE IF dry THEN
            IF st.tree[dest_rel_path] = Absent
            THEN [st EXCEPT !.files_changed = Append(@, dest_rel_path)]
            ELSE IF ~compare_files(src[source_rel_path], st.tree[dest_rel_path])
            THEN [st EXCEPT !.files_changed = Append(@, dest_rel_path)]
            ELSE st
        ELSE LET r == sync_file(src[source_rel_path], st.tree, dest_rel_path) IN
             IF r.copied
             THEN [files_changed |-> Append(st.files_changed, dest_rel_path),
                   tree |-> r.tree]
             ELSE st

\* (mutant) the loop body without the check of lines 402-405: the rule's
\* exclude_repos is not consulted
reconcile_rule_ignores_exclusion(file_config, src, repo, dry, st) ==
    LET source_rel_path == file_config.source
        dest_rel_path   == Get(file_config, "destination", source_rel_path)
    IN  IF src[source_rel_path] = Absent THEN st
        ELSE IF dry THEN
            IF st.tree[dest_rel_path] = Absent
            THEN [st EXCEPT !.files_changed = Append(@, dest_rel_path)]
            ELSE IF ~compare_files(src[source_rel_path], st.tree[dest_rel_path])
            THEN [st EXCEPT !.files_changed = Append(@, dest_rel_path)]
            ELSE st
        ELSE LET r == sync_file(src[source_rel_path], st.tree, dest_rel_path) IN
             IF r.copied
             THEN [files_changed |-> Append(st.files_changed, dest_rel_path),
                   tree |-> r.tree]
             ELSE st

\* One iteration of the loop over files_to_sync (lines 391-418): the state
\* st = [files_changed, tree] after the rule file_config.
reconcile_rule(file_config, src, repo, dry, st) ==
    LET source_rel_path == file_config.source
        dest_rel_path   == Get(file_config, "destination", source_rel_path)
    IN  IF src[source_rel_path] = Absent THEN st
        ELSE IF "exclude_repos" \in file_config.keys
                /\ repo \in file_config.exclude_repos THEN st
        ELSE IF dry THEN
            IF st.tree[dest_rel_path] = Absent
            THEN [st EXCEPT !.files_changed = Append(@, dest_rel_path)]
            ELSE IF ~compare_files(src[source_rel_path], st.tree[dest_rel_path])
            THEN [st EXCEPT !.files_changed = Append(@, dest_rel_path)]
            ELSE st
        ELSE LET r == sync_file(src[source_rel_path], st.tree, dest_rel_path) IN
             IF r.copied
             THEN [files_changed |-> Append(st.files_changed, dest_rel_path),
                   tree |-> r.tree]
             ELSE st

\* The loop over the first n entries of files_to_sync, from the cloned tree t
RECURSIVE reconcile(_, _, _, _, _, _)
reconcile(files_to_sync, n, src, t, repo, dry) ==
    IF n = 0 THEN [files_changed |-> <<>>, tree |-> t]
    ELSE reconcile_rule(files_to_sync[n], src, repo, dry,
                        reconcile(files_to_sync, n - 1, src, t, repo, dry))

-----------------------------------------------------------------------------
(* What the environment can answer to one step *)

\* An API request: the remote answers a status code and a body, or the
\* request layer raises something that is no requests.RequestException.
\* response.json() gives a JSON object (a dict; a body that is no JSON at
\* all becomes the dict {"raw": ...}) or another JSON value: an array, a
\* string, a number, null.
JsonObject == "object"
NotObject  == "not an object"
Bodies     == {JsonObject, NotObject}

Answer(c)          == [raise |-> FALSE, code |-> c, body |-> JsonObject]
AnswerNotObject(c) == [raise |-> FALSE, code |-> c, body |-> NotObject]
Raise              == [raise |-> TRUE, code |-> 0, body |-> JsonObject]

\* github_api_request: the data returned with the status.  The synthetic
\* 403 comes with the dict {"error": ...}.
github_api_request_data(endpoint, method, body) ==
    IF ~validate_github_api_request(endpoint, method) THEN JsonObject ELSE body

UserUrl                 == GITHUB_API \o SlashJoin(<<W_user>>)
ForkUrl(owner, repo)    == GITHUB_API \o SlashJoin(<<W_repos, owner, repo>>)
ForksUrl(org, repo)     == GITHUB_API \o SlashJoin(<<W_repos, org, repo, W_forks>>)
PullsUrl(org, repo)     == GITHUB_API \o SlashJoin(<<W_repos, org, repo, W_pulls>>)

\* get_authenticated_user: the login when the status is 200, else None
get_authenticated_user(st, login) == IF st = 200 THEN login ELSE None

\* line 137: data.get('login') raises AttributeError when data is no dict
get_authenticated_user_raises(st, data) == st = 200 /\ data # JsonObject

\* (mutant) check_fork_exists that takes only a 404 for "no fork"
check_fork_exists_unless_404(st) == st # 404

\* check_fork_exists: True on 200, None (falsy) otherwise
check_fork_exists(st) == st = 200

\* (mutant) create_fork that fails on 404 only
create_fork_unless_404(st) == st # 404

\* create_fork: True on 202 (after the settling delay) and on 200
create_fork(st) == st = 202 \/ st = 200

\* create_pull_request: True on 201 only
create_pull_request(st) == st = 201

\* lines 311 and 315: response_data.get(...) is called whatever the status
\* and raises AttributeError when response_data is no dict
create_pull_request_raises(data) == data # JsonObject

\* delete_fork_branch (lines 175-178): the endpoint it passes to
\* github_api_request, and its return value for the status it gets back
DeleteRefEndpoint(owner, repo, branch) ==
    SlashJoin(<<W_repos, owner, repo, W_git, W_refs, W_heads, branch>>)

delete_fork_branch(st) == st = 204

\* branch_name = f"sync-repo-standards-{timestamp}"
BranchPrefix == <<"s","y","n","c","-">>
Timestamps   == {<<"1">>, <<"2">>}

-----------------------------------------------------------------------------
(* sync_repository, one step per external operation.  An attempt starts    *)
(* at spc = "start" (set by the caller) and ends at spc = "returned" with  *)
(* result "true", "false", or "raised" when an exception left the function.*)
(* ops lists what the attempt did: each external operation when it is      *)
(* attempted, "cloned" when the clone succeeded, "reconciled" when the     *)
(* loop over files_to_sync ran to its end.                                 *)

Leave(res) == /\ result' = res /\ spc' = "returned"

\* leave the try block inside the with block: the verdict is set, the
\* temporary directory is still to be removed
LeaveTry(res) == /\ result' = res /\ spc' = "exit_with"

\* (mutant) sync_repository without the check of lines 337-339
SR_Start_without_files_check ==
    /\ spc = "start"
    /\ spc' = IF dry_run THEN "acquire" ELSE "fork_check"
    /\ UNCHANGED <<stale_dirs, repo_name, dry_run, tmpdir, tree, files_changed, branch_name,
                   status, pushed, ops, result>>

\* lines 335-339: the configuration lookup
SR_Start ==
    /\ spc = "start"
    /\ IF Get(config, "files_to_sync", <<>>) = <<>>
       THEN Leave("false")
       ELSE /\ spc' = IF dry_run THEN "acquire" ELSE "fork_check"
            /\ UNCHANGED result
    /\ UNCHANGED <<stale_dirs, repo_name, dry_run, tmpdir, tree, files_changed, branch_name,
                   status, pushed, ops>>

\* status, _ = github_api_request(url, ...): the status each operation of
\* the attempt gets when the remote, if the request reaches it, answers code
ForkCheckStatus(code) ==
    github_api_request(ForkUrl(fork_owner, repo_name), "GET", code)
ForkCreateStatus(code) ==
    github_api_request(ForksUrl(args.org, repo_name), "POST", code)
PullStatus(code) ==
    github_api_request(PullsUrl(args.org, repo_name), "POST", code)
PullData(body) ==
    github_api_request_data(PullsUrl(args.org, repo_name), "POST", body)

\* line 343, check_fork_exists (lines 143-148)
SR_ForkCheck(Outcomes) ==
    /\ spc = "fork_check"
    /\ \E o \in Outcomes :
         /\ ops' = Append(ops, "fork_check")
         /\ IF o.raise
            THEN Leave("raised") /\ UNCHANGED status
            ELSE /\ status' = [status EXCEPT !.fork_check = ForkCheckStatus(o.code)]
                 /\ spc' = IF check_fork_exists(ForkCheckStatus(o.code))
                           THEN "acquire" ELSE "fork_create"
                 /\ UNCHANGED result
    /\ UNCHANGED <<stale_dirs, repo_name, dry_run, tmpdir, tree, files_changed, branch_name,
                   pushed>>

\* lines 344-346, create_fork (lines 151-172)
SR_ForkCreate(Outcomes) ==
    /\ spc = "fork_create"
    /\ \E o \in Outcomes :
         /\ ops' = Append(ops, "fork_create")
         /\ IF o.raise
            THEN Leave("raised") /\ UNCHANGED status
            ELSE /\ status' = [status EXCEPT !.fork_create = ForkCreateStatus(o.code)]
                 /\ IF create_fork(ForkCreateStatus(o.code))
                    THEN spc' = "acquire" /\ UNCHANGED result
                    ELSE Leave("false")
    /\ UNCHANGED <<stale_dirs, repo_name, dry_run, tmpdir, tree, files_changed, branch_name,
                   pushed>>

\* line 354: with tempfile.TemporaryDirectory() as tmpdir
SR_Acquire(Outcomes) ==
    /\ spc = "acquire"
    /\ \E o \in Outcomes :
         IF o = "ok"
         THEN tmpdir' = TRUE /\ spc' = "clone" /\ UNCHANGED result
         ELSE Leave("raised") /\ UNCHANGED tmpdir
    /\ UNCHANGED <<stale_dirs, repo_name, dry_run, tree, files_changed, branch_name, status,
                   pushed, ops>>

\* (mutant) a failed clone is tried once more
SR_Clone_retries(Outcomes) ==
    /\ spc = "clone"
    /\ \E o \in Outcomes :
         IF o = "ok"
         THEN /\ ops' = ops \o <<"clone", "cloned">>
              /\ tree' = IF dry_run THEN upstream_tree ELSE fork_tree
              /\ spc' = IF dry_run THEN "reconcile" ELSE "sync_upstream"
              /\ UNCHANGED result
         ELSE /\ ops' = Append(ops, "clone")
              /\ UNCHANGED tree
              /\ IF "clone" \in SeqToSet(ops)
                 THEN LeaveTry("false")
                 ELSE UNCHANGED <<spc, result>>
    /\ UNCHANGED <<stale_dirs, repo_name, dry_run, tmpdir, files_changed, branch_name, status,
                   pushed>>

\* lines 356-366: git clone of the fork, or of upstream in a dry run
SR_Clone(Outcomes) ==
    /\ spc = "clone"
    /\ \E o \in Outcomes :
         IF o = "ok"
         THEN /\ ops' = ops \o <<"clone", "cloned">>
              /\ tree' = IF dry_run THEN upstream_tree ELSE fork_tree
              /\ spc' = IF dry_run THEN "reconcile" ELSE "sync_upstream"
              /\ UNCHANGED result
         ELSE ops' = Append(ops, "clone") /\ LeaveTry("false") /\ UNCHANGED tree
    /\ UNCHANGED <<stale_dirs, repo_name, dry_run, tmpdir, files_changed, branch_name, status,
                   pushed>>

\* (mutant) a failed sync with upstream ends the attempt with failure
SR_SyncUpstream_fatal(Outcomes) ==
    /\ spc = "sync_upstream"
    /\ \E o \in Outcomes :
         CASE o = "ok" ->
                /\ ops' = Append(ops, "sync_upstream")
                /\ tree' = upstream_tree
                /\ spc' = "reconcile" /\ UNCHANGED result
           [] o = "GitCommandError" ->
                /\ ops' = ops \o <<"sync_upstream", "sync_warning">>
                /\ LeaveTry("false") /\ UNCHANGED tree
           [] OTHER ->
                /\ ops' = Append(ops, "sync_upstream")
                /\ LeaveTry("false") /\ UNCHANGED tree
    /\ UNCHANGED <<stale_dirs, repo_name, dry_run, tmpdir, files_changed, branch_name, status,
                   pushed>>

\* lines 369-387: credentials, upstream remote, fetch, checkout, hard reset.
\* A GitCommandError of the fetch, the checkout or the reset is caught at
\* line 386 (ops records it as "sync_warning") and the clone stays as it
\* is; any other exception is caught at line 456.
SR_SyncUpstream(Outcomes) ==
    /\ spc = "sync_upstream"
    /\ \E o \in Outcomes :
         CASE o = "ok" ->
                /\ ops' = Append(ops, "sync_upstream")
                /\ tree' = upstream_tree
                /\ spc' = "reconcile" /\ UNCHANGED result
           [] o = "GitCommandError" ->
                /\ ops' = ops \o <<"sync_upstream", "sync_warning">>
                /\ spc' = "reconcile" /\ UNCHANGED <<tree, result>>
           [] OTHER ->
                /\ ops' = Append(ops, "sync_upstream")
                /\ LeaveTry("false") /\ UNCHANGED tree
    /\ UNCHANGED <<stale_dirs, repo_name, dry_run, tmpdir, files_changed, branch_name, status,
                   pushed>>

\* lines 389-426: the loop over files_to_sync, then the two early returns.
\* An exception raised while the rule n+1 is processed leaves the first n
\* rules applied.
SR_Reconcile(Outcomes) ==
    /\ spc = "reconcile"
    /\ LET files_to_sync == Get(config, "files_to_sync", <<>>) IN
       \E o \in Outcomes :
         IF o = "ok"
         THEN LET r == reconcile(files_to_sync, Len(files_to_sync), source_tree,
                                 tree, repo_name, dry_run) IN
              /\ files_changed' = r.files_changed
              /\ tree' = r.tree
              /\ ops' = Append(ops, "reconciled")
              /\ IF r.files_changed = <<>> THEN LeaveTry("true")
                 ELSE IF dry_run THEN LeaveTry("true")
                 ELSE spc' = "branch_commit_push" /\ UNCHANGED result
         ELSE \E n \in 0..(Len(files_to_sync) - 1) :
              LET r == reconcile(files_to_sync, n, source_tree, tree, repo_name,
                                 dry_run) IN
              /\ files_changed' = r.files_changed
              /\ tree' = r.tree
              /\ UNCHANGED ops
              /\ LeaveTry("false")
    /\ UNCHANGED <<stale_dirs, repo_name, dry_run, tmpdir, branch_name, status, pushed>>

\* The git steps of create_branch_and_commit, in order
GitSteps == <<"checkout_b", "add", "commit", "push">>

BcpOk == [fail_at |-> 0, err |-> "none"]
BcpFailures ==
    [fail_at : 1..Len(GitSteps), err : {"GitCommandError", "Exception"}]

\* lines 428-435, create_branch_and_commit (lines 261-284): the step
\* fail_at fails (0: none does); a GitCommandError makes it return False,
\* any other exception is caught at line 456.
SR_BranchCommitPush(Outcomes) ==
    /\ spc = "branch_commit_push"
    /\ \E ts \in Timestamps, o \in Outcomes :
         /\ branch_name' = BranchPrefix \o ts
         /\ IF o.fail_at = 0
            THEN /\ ops' = ops \o GitSteps
                 /\ pushed' = [branch |-> BranchPrefix \o ts, tree |-> tree]
                 /\ spc' = "pull_request" /\ UNCHANGED result
            ELSE /\ ops' = ops \o SubSeq(GitSteps, 1, o.fail_at)
                 /\ UNCHANGED pushed
                 /\ LeaveTry("false")
    /\ UNCHANGED <<stale_dirs, repo_name, dry_run, tmpdir, tree, files_changed, status>>

\* lines 437-452, create_pull_request (lines 287-317).  An exception of the
\* request layer, and the AttributeError of a response that is no dict, are
\* caught at line 456.
SR_PullRequest(Outcomes) ==
    /\ spc = "pull_request"
    /\ ops' = Append(ops, "pull_request")
    /\ \E o \in Outcomes :
         IF o.raise
         THEN LeaveTry("false") /\ UNCHANGED status
         ELSE /\ status' = [status EXCEPT !.pr = PullStatus(o.code)]
              /\ IF create_pull_request_raises(PullData(o.body))
                 THEN LeaveTry("false")
                 ELSE LeaveTry(IF create_pull_request(PullStatus(o.code))
                               THEN "true" ELSE "false")
    /\ UNCHANGED <<stale_dirs, repo_name, dry_run, tmpdir, tree, files_changed, branch_name,
                   pushed>>

\* line 354: leaving the with block removes the temporary directory and
\* everything cloned into it, whatever the verdict.  The with statement is
\* outside the try of line 355: when the removal fails (a file that cannot
\* be deleted), TemporaryDirectory.__exit__ raises, the exception replaces
\* the verdict and leaves sync_repository, and the directory stays, with
\* what the removal did not delete.

\* What a removal that fails can leave of the clone t: the removal deletes
\* file after file and stops at the first one it cannot delete, so each
\* file of the clone is either still there or gone (all of them gone when
\* the file that cannot be deleted is none of Paths); when no clone was
\* made, or the clone's directory went and only the temporary directory
\* could not be removed, no tree is left.
RemainsOf(t) ==
    { u \in [Paths -> Contents \cup {Absent, "no tree"}] :
        \A p \in Paths : u[p] = t[p] \/ (t[p] # "no tree" /\ u[p] = Absent) }
      \cup {NoTree}

SR_ExitWith(Outcomes) ==
    /\ spc = "exit_with"
    /\ \E o \in Outcomes :
         IF o = "ok"
         THEN tmpdir' = FALSE /\ tree' = NoTree /\ UNCHANGED result
         ELSE tmpdir' = TRUE /\ tree' \in RemainsOf(tree) /\ result' = "raised"
    /\ spc' = "returned"
    /\ UNCHANGED <<stale_dirs, repo_name, dry_run, files_changed, branch_name,
                   status, pushed, ops>>

-----------------------------------------------------------------------------
(* The Repository Catalog Loader *)

\* A fetched peribolos.yaml: its top-level keys, the organizations under
\* "orgs", and, for the organization of the run, the keys of its entry and
\* the keys of its "repos" mapping in document order.
Manifest(ks, os, oks, rs) ==
    [fetched |-> TRUE, keys |-> ks, orgs |-> os, org_keys |-> oks, repos |-> rs,
     broken |-> "no"]

\* lines 208-215 on a document with a part that is no mapping: 'orgs' in
\* None, org in None and 'repos' in None raise TypeError, and .keys() of a
\* repos entry that is null or a list raises AttributeError.  Each test is
\* reached only when the tests before it were true.
extract_repositories_raises(data, org) ==
    \/ data.broken = "document"
    \/ data.broken = "orgs" /\ "orgs" \in data.keys
    \/ data.broken = "org" /\ "orgs" \in data.keys /\ org \in data.orgs
    \/ /\ data.broken = "repos"
       /\ "orgs" \in data.keys /\ org \in data.orgs /\ "repos" \in data.org_keys

extract_repositories(data, org) ==
    IF "orgs" \in data.keys /\ org \in data.orgs /\ "repos" \in data.org_keys
    THEN data.repos
    ELSE <<>>

\* [r for r in repositories if keep(r)]
RECURSIVE Filter(_, _)
Filter(q, keep) ==
    IF q = <<>> THEN <<>>
    ELSE IF Head(q) \in keep THEN <<Head(q)>> \o Filter(Tail(q), keep)
    ELSE Filter(Tail(q), keep)

RECURSIVE FilterOut(_, _)
FilterOut(q, drop) ==
    IF q = <<>> THEN <<>>
    ELSE IF Head(q) \in drop THEN FilterOut(Tail(q), drop)
    ELSE <<Head(q)>> \o FilterOut(Tail(q), drop)

\* lines 487-489: the --repos subset
restrict_to_repos(repos, a) ==
    IF a.repos_given /\ a.repos # <<>>
    THEN Filter(repos, SeqToSet(a.repos))
    ELSE repos

\* lines 492-493 raise when the configuration is no mapping (config.get:
\* AttributeError) and when exclude_repos is null and there is a repository
\* to test against it (r not in None: TypeError)
select_repositories_raises(repos, a, cfg) ==
    \/ cfg.broken = "document"
    \/ /\ cfg.broken = "exclude_repos" /\ "exclude_repos" \in cfg.keys
       /\ restrict_to_repos(repos, a) # <<>>

\* (mutant) the --repos list, restricted to the manifest, gives the order
select_repositories_in_repos_order(repos, a, cfg) ==
    LET subset == IF a.repos_given /\ a.repos # <<>>
                  THEN Filter(a.repos, SeqToSet(repos))
                  ELSE repos
        excluded_repos == Get(cfg, "exclude_repos", {ORG_INFRA})
    IN  FilterOut(subset, excluded_repos)

\* lines 487-493: the --repos subset, then the exclusion set
select_repositories(repos, a, cfg) ==
    LET subset == restrict_to_repos(repos, a)
        excluded_repos == Get(cfg, "exclude_repos", {ORG_INFRA})
    IN  FilterOut(subset, excluded_repos)

-----------------------------------------------------------------------------
(* main *)

\* the caller's side of a call of sync_repository: fresh locals; what is on
\* the file system stays as the earlier attempts left it (a directory the
\* attempt before could not remove is one more stale directory)
EnterSyncRepository(name, dry) ==
    /\ spc' = "start"
    /\ repo_name' = name
    /\ dry_run' = dry
    /\ stale_dirs' = IF tmpdir THEN stale_dirs + 1 ELSE stale_dirs
    /\ tmpdir' = FALSE
    /\ tree' = NoTree
    /\ files_changed' = <<>>
    /\ branch_name' = <<>>
    /\ status' = [fork_check |-> 0, fork_create |-> 0, pr |-> 0]
    /\ pushed' = [branch |-> <<>>, tree |-> NoTree]
    /\ ops' = <<>>
    /\ result' = "none"

\* the caller's side of the end of a call: the call's locals are gone, and
\* no repository is being processed; what is on the file system stays
LeaveSyncRepository ==
    /\ repo_name' = <<>>
    /\ dry_run' = FALSE
    /\ files_changed' = <<>>
    /\ branch_name' = <<>>
    /\ status' = [fork_check |-> 0, fork_create |-> 0, pr |-> 0]
    /\ pushed' = [branch |-> <<>>, tree |-> NoTree]
    /\ ops' = <<>>
    /\ result' = "none"
    /\ upstream_tree' = NoTree
    /\ fork_tree' = NoTree
    /\ UNCHANGED <<tmpdir, tree, stale_dirs>>

\* (mutant) main without the credential check
M_CheckToken_skipped ==
    /\ pc = "check_token"
    /\ pc' = "get_user"
    /\ UNCHANGED <<user_resp, fork_owner, peribolos_data, repositories, idx,
                   success_count, calls, verdicts>>

\* lines 466-468
M_CheckToken ==
    /\ pc = "check_token"
    /\ pc' = IF ~GITHUB_TOKEN THEN "exited" ELSE "get_user"
    /\ UNCHANGED <<user_resp, fork_owner, peribolos_data, repositories, idx,
                   success_count, calls, verdicts>>

\* what GET /user can answer: a status, and a body that is a JSON object
\* with or without a login, or another JSON value (which has no login)
UserAnswers ==
    { [raise |-> FALSE, code |-> 200, body |-> JsonObject, login |-> BOT],
      [raise |-> FALSE, code |-> 200, body |-> JsonObject, login |-> None],
      [raise |-> FALSE, code |-> 200, body |-> JsonObject, login |-> <<>>],
      [raise |-> FALSE, code |-> 200, body |-> NotObject,  login |-> None],
      [raise |-> FALSE, code |-> 401, body |-> JsonObject, login |-> BOT],
      [raise |-> FALSE, code |-> 401, body |-> NotObject,  login |-> None],
      [raise |-> TRUE,  code |-> 0,   body |-> JsonObject, login |-> None] }

\* line 135: status, data = github_api_request(url, method="GET")
UserStatus(code) == github_api_request(UserUrl, "GET", code)
UserData(body)   == github_api_request_data(UserUrl, "GET", body)

\* lines 470-476, get_authenticated_user (lines 132-140).  An exception of
\* the request layer, and the AttributeError of a 200 whose body is no dict,
\* are caught nowhere: main ends with a traceback.
M_GetUser ==
    /\ pc = "get_user"
    /\ \E o \in UserAnswers :
         IF o.raise
         THEN pc' = "crashed" /\ UNCHANGED <<user_resp, fork_owner>>
         ELSE /\ user_resp' = [status |-> UserStatus(o.code),
                               body |-> UserData(o.body), login |-> o.login]
              /\ IF get_authenticated_user_raises(UserStatus(o.code),
                                                  UserData(o.body))
                 THEN pc' = "crashed" /\ UNCHANGED fork_owner
                 ELSE /\ fork_owner' =
                           get_authenticated_user(UserStatus(o.code), o.login)
                      /\ pc' = IF Falsy(get_authenticated_user(UserStatus(o.code),
                                                               o.login))
                               THEN "exited" ELSE "load_config"
    /\ UNCHANGED <<peribolos_data, repositories, idx, success_count, calls,
                   verdicts>>

\* line 477, load_sync_config (lines 70-75): the file is read, or open raises
M_LoadConfig ==
    /\ pc = "load_config"
    /\ \E o \in {"ok", "Exception"} :
         pc' = IF o = "ok" THEN "fetch_peribolos" ELSE "crashed"
    /\ UNCHANGED <<user_resp, fork_owner, peribolos_data, repositories, idx,
                   success_count, calls, verdicts>>

Manifests ==
    { Manifest({}, {}, {}, <<>>),
      Manifest({"orgs"}, {OTHER_ORG}, {}, <<>>),
      Manifest({"orgs"}, {ORG, OTHER_ORG}, {}, <<>>) }
    \cup { Manifest({"orgs"}, {ORG}, {"repos"}, rs) :
               rs \in DistinctSeqsUpTo({R1, R2, ORG_INFRA}, MaxRepos) }

\* peribolos.yaml files with a part that is no mapping: an empty file
\* (None), "orgs: null", an organization entry that is null, and a repos
\* entry that is null or a list
BrokenManifests ==
    { Broken(Manifest({}, {}, {}, <<>>), "document"),
      Broken(Manifest({"orgs"}, {}, {}, <<>>), "orgs"),
      Broken(Manifest({"orgs"}, {ORG}, {}, <<>>), "org"),
      Broken(Manifest({"orgs"}, {OTHER_ORG}, {}, <<>>), "repos"),
      Broken(Manifest({"orgs"}, {ORG}, {"repos"}, <<>>), "repos") }

\* fetch_peribolos_file gives no document: the clone failed or the file is
\* missing (sys.exit(1)), or the file is no YAML ("yaml": yaml.safe_load
\* raises YAMLError, which the function does not catch)
FetchFailures ==
    { [fetched |-> FALSE, keys |-> {}, orgs |-> {}, org_keys |-> {},
       repos |-> <<>>, broken |-> part] : part \in {"no", "yaml"} }

\* lines 479-500: fetch_peribolos_file (lines 181-203), extract_repositories,
\* the --repos filter and the exclusion set.  A failed clone and a missing
\* peribolos.yaml both end the process (sys.exit(1)); so does an empty
\* repository list (sys.exit(0)).  An exception raised on the way (by the
\* YAML parser, by extract_repositories, by lines 492-493) is caught
\* nowhere: main ends with a traceback.
M_FetchPeribolos ==
    /\ pc = "fetch_peribolos"
    /\ \E data \in Manifests \cup BrokenManifests \cup FetchFailures :
         IF ~data.fetched
         THEN /\ pc' = IF data.broken = "yaml" THEN "crashed" ELSE "exited"
              /\ UNCHANGED <<peribolos_data, repositories>>
         ELSE /\ peribolos_data' = data
              /\ IF extract_repositories_raises(data, args.org)
                 THEN pc' = "crashed" /\ UNCHANGED repositories
                 ELSE LET found == extract_repositories(data, args.org) IN
                      IF found = <<>>
                      THEN pc' = "exited" /\ repositories' = found
                      ELSE IF select_repositories_raises(found, args, config)
                      THEN /\ pc' = "crashed"
                           /\ repositories' = restrict_to_repos(found, args)
                      ELSE /\ repositories' = select_repositories(found, args, config)
                           /\ pc' = "loop"
    /\ UNCHANGED <<user_resp, fork_owner, idx, success_count, calls, verdicts>>

\* The remote state of a repository when its attempt starts: the tree of
\* upstream's main branch and the tree of the fork's main branch.
RepoTrees ==
    { [A |-> "x", B |-> "y"], [A |-> "y", B |-> Absent] }

\* lines 503-505: the batch loop calls sync_repository for the next repository
M_LoopCall ==
    /\ pc = "loop" /\ spc = "idle"
    /\ idx <= Len(repositories)
    /\ calls' = Append(calls, repositories[idx])
    /\ EnterSyncRepository(repositories[idx], args.dry_run)
    /\ upstream_tree' \in RepoTrees
    /\ fork_tree' \in RepoTrees
    /\ UNCHANGED <<pc, user_resp, fork_owner, peribolos_data, repositories, idx,
                   success_count, verdicts>>

\* (mutant) the batch loop without its try/except: an exception that leaves
\* sync_repository ends the run
M_LoopReturn_no_except ==
    /\ pc = "loop" /\ spc = "returned"
    /\ success_count' = IF result = "true" THEN success_count + 1
                         ELSE success_count
    /\ verdicts' = Append(verdicts, result)
    /\ idx' = idx + 1
    /\ spc' = "idle"
    /\ pc' = IF result = "raised" THEN "crashed" ELSE pc
    /\ UNCHANGED <<user_resp, fork_owner, peribolos_data, repositories, calls>>
    /\ LeaveSyncRepository

\* lines 505-510: the call returned a verdict, or raised and the loop caught it
M_LoopReturn ==
    /\ pc = "loop" /\ spc = "returned"
    /\ success_count' = IF result = "true" THEN success_count + 1
                         ELSE success_count
    /\ verdicts' = Append(verdicts, result)
    /\ idx' = idx + 1
    /\ spc' = "idle"
    /\ UNCHANGED <<pc, user_resp, fork_owner, peribolos_data, repositories, calls>>
    /\ LeaveSyncRepository

\* lines 512-514: the summary
M_Summary ==
    /\ pc = "loop" /\ spc = "idle"
    /\ idx > Len(repositories)
    /\ pc' = "summary"
    /\ UNCHANGED <<user_resp, fork_owner, peribolos_data, repositories, idx,
                   success_count, calls, verdicts>>

-----------------------------------------------------------------------------
(* Values of the variables a specification does not use *)

GwIdle   == /\ gw_pc = "idle"  /\ gw_endpoint = <<>>  /\ gw_method = "GET"
            /\ gw_status = 0   /\ network_calls = 0
            /\ gw_caller = "direct"  /\ gw_remote = 0  /\ gw_return = "none"

NoStatus == [fork_check |-> 0, fork_create |-> 0, pr |-> 0]
NoPush   == [branch |-> <<>>, tree |-> NoTree]
NotFetched ==
    [fetched |-> FALSE, keys |-> {}, orgs |-> {}, org_keys |-> {}, repos |-> <<>>,
     broken |-> "no"]

SrIdle   == /\ spc = "idle"  /\ repo_name = <<>>  /\ dry_run = FALSE
            /\ tmpdir = FALSE  /\ stale_dirs = 0  /\ tree = NoTree  /\ files_changed = <<>>
            /\ branch_name = <<>>  /\ status = NoStatus  /\ pushed = NoPush
            /\ ops = <<>>
            /\ result = "none"

-----------------------------------------------------------------------------
(* The Remote Gateway called on its own: any endpoint, any method *)

GwHosts ==
    { GITHUB_API,
      <<"h","t","t","p","s",":","/","/","a","p","i","-","g","i","t","h","u","b",".","c","o","m">>,
      <<"h","t","t","p","s",":","/","/","a","p","i",".","g","i","t","h","u","b","x","c","o","m">>,
      <<"h","t","t","p",":","/","/","a","p","i",".","g","i","t","h","u","b",".","c","o","m">>,
      GITHUB_API \o <<".","e","u">>,
      <<>> }

N_o == <<"o">>
N_r == <<"r">>
N_b == <<"b">>

GwPaths ==
    { SlashJoin(<<W_user>>),
      SlashJoin(<<W_user>>) \o <<NL>>,
      SlashJoin(<<W_user, <<>> >>),
      SlashJoin(<<W_user \o <<"s">> >>),
      SlashJoin(<<W_repos, N_o>>),
      SlashJoin(<<W_repos, N_o, N_r>>),
      SlashJoin(<<W_repos, <<>>, N_r>>),
      SlashJoin(<<W_repos, N_o, N_r, <<>> >>),
      SlashJoin(<<W_repos, N_o, N_r, W_forks>>),
      SlashJoin(<<W_repos, N_o, N_r, W_pulls>>),
      SlashJoin(<<W_repos, N_o, N_r, W_pulls, <<"1">> >>),
      SlashJoin(<<W_repos, N_o, N_r, W_git, W_refs, W_heads, N_b>>),
      SlashJoin(<<W_repos, N_o, N_r, W_git, W_refs, W_heads, N_b, N_b>>),
      SlashJoin(<<W_repos, N_o, N_r, W_git, W_refs, W_heads, <<>> >>),
      SlashJoin(<<W_repos, N_o, N_r, W_git, W_refs, <<"t","a","g","s">>, N_b>>),
      SlashJoin(<<<<"o","r","g","s">>, N_o>>) }

GwMethods == {"GET", "POST", "DELETE", "PATCH"}

GatewayInit ==
    /\ gw_pc = "call"
    /\ \E h \in GwHosts, p \in GwPaths : gw_endpoint = h \o p
    /\ gw_method \in GwMethods
    /\ gw_status = 0
    /\ network_calls = 0
    /\ gw_caller = "direct" /\ gw_remote = 0 /\ gw_return = "none"

\* github_api_request(endpoint, method): lines 103-105 reject, 114-129 send
GatewayCall ==
    /\ gw_pc = "call"
    /\ \E remote \in HttpStatuses :
          /\ gw_remote' = remote
          /\ gw_status' = github_api_request(gw_endpoint, gw_method, remote)
    /\ network_calls' = IF reaches_network(gw_endpoint, gw_method)
                           THEN network_calls + 1 ELSE network_calls
    /\ gw_pc' = "returned"
    /\ UNCHANGED <<gw_endpoint, gw_method, gw_caller, gw_return>>

InIdle   == /\ GITHUB_TOKEN = FALSE
            /\ args = [org |-> <<>>, dry_run |-> FALSE, repos_given |-> FALSE,
                       repos |-> <<>>]
            /\ config = Config({}, <<>>, {})
            /\ source_tree = NoTree

MainIdle == /\ pc = "idle"  /\ user_resp = [status |-> 0, body |-> JsonObject, login |-> None]
            /\ fork_owner = None  /\ peribolos_data = NotFetched
            /\ repositories = <<>>
            /\ idx = 1  /\ success_count = 0  /\ calls = <<>>
            /\ verdicts = <<>>

RemIdle  == upstream_tree = NoTree /\ fork_tree = NoTree

ScIdle   == run = 0 /\ history = <<>>

GatewaySpecInit ==
    GatewayInit /\ InIdle /\ MainIdle /\ RemIdle /\ SrIdle /\ ScIdle

GatewayNext ==
    GatewayCall /\ UNCHANGED <<inVars, mainVars, remVars, srVars, scVars>>

SpecGateway == GatewaySpecInit /\ [][GatewayNext]_vars

-----------------------------------------------------------------------------
(* The operations of the program that go through github_api_request, each  *)
(* called on its own with names of organizations, accounts, repositories   *)
(* and branches.                                                           *)

Operations ==
    {"get_authenticated_user", "check_fork_exists", "create_fork",
     "create_pull_request", "delete_fork_branch"}

OpOrgs     == {ORG, OTHER_ORG}
OpOwners   == {BOT, N_o}
OpRepos    == {R1, R2, ORG_INFRA}
OpBranches == {BranchPrefix \o ts : ts \in Timestamps}

\* the endpoint and the method the operation passes to github_api_request
OpEndpoint(op, org, owner, repo, branch) ==
    CASE op = "get_authenticated_user" -> UserUrl
      [] op = "check_fork_exists"      -> ForkUrl(owner, repo)
      [] op = "create_fork"            -> ForksUrl(org, repo)
      [] op = "create_pull_request"    -> PullsUrl(org, repo)
      [] op = "delete_fork_branch"     -> DeleteRefEndpoint(owner, repo, branch)

OpMethod(op) ==
    CASE op = "get_authenticated_user" -> "GET"
      [] op = "check_fork_exists"      -> "GET"
      [] op = "create_fork"            -> "POST"
      [] op = "create_pull_request"    -> "POST"
      [] op = "delete_fork_branch"     -> "DELETE"

\* what the operation returns for the status and the data that
\* github_api_request gave it ("AttributeError": it raises)
OpReturn(op, st, data) ==
    CASE op = "get_authenticated_user" ->
             IF get_authenticated_user_raises(st, data) THEN "AttributeError"
             ELSE IF get_authenticated_user(st, BOT) = None THEN "None"
             ELSE "login"
      [] op = "check_fork_exists" ->
             IF check_fork_exists(st) THEN "True" ELSE "None"
      [] op = "create_fork" ->
             IF create_fork(st) THEN "True" ELSE "False"
      [] op = "create_pull_request" ->
             IF create_pull_request_raises(data) THEN "AttributeError"
             ELSE IF create_pull_request(st) THEN "True" ELSE "False"
      [] op = "delete_fork_branch" ->
             IF delete_fork_branch(st) THEN "True" ELSE "False"

OperationsInit ==
    /\ gw_pc = "call"
    /\ gw_caller \in Operations
    /\ \E org \in OpOrgs, owner \in OpOwners, repo \in OpRepos,
          branch \in OpBranches :
          gw_endpoint = OpEndpoint(gw_caller, org, owner, repo, branch)
    /\ gw_method = OpMethod(gw_caller)
    /\ gw_status = 0 /\ network_calls = 0
    /\ gw_remote = 0 /\ gw_return = "none"
    /\ InIdle /\ MainIdle /\ RemIdle /\ SrIdle /\ ScIdle

\* the operation calls github_api_request and returns
OperationCall ==
    /\ gw_pc = "call"
    /\ \E remote \in HttpStatuses, body \in Bodies :
          LET st   == github_api_request(gw_endpoint, gw_method, remote)
              data == github_api_request_data(gw_endpoint, gw_method, body)
          IN
          /\ gw_remote' = remote
          /\ gw_status' = st
          /\ gw_return' = OpReturn(gw_caller, st, data)
    /\ network_calls' = IF reaches_network(gw_endpoint, gw_method)
                           THEN network_calls + 1 ELSE network_calls
    /\ gw_pc' = "returned"
    /\ UNCHANGED <<gw_endpoint, gw_method, gw_caller>>
    /\ UNCHANGED <<inVars, mainVars, remVars, srVars, scVars>>

SpecOperations == OperationsInit /\ [][OperationCall]_vars

-----------------------------------------------------------------------------
(* A whole run of main, in an environment where every remote answer, every *)
(* git command and every step may fail.                                    *)

ForkCheckOutcomes  == {Answer(200), Answer(201), Answer(404), Answer(403),
                       Answer(500), Raise}
ForkCreateOutcomes == {Answer(202), Answer(200), Answer(500), Raise}
AcquireOutcomes    == {"ok", "Exception"}
CloneOutcomes      == {"ok", "CalledProcessError", "Exception"}
SyncOutcomes       == {"ok", "GitCommandError", "Exception"}
ReconcileOutcomes  == {"ok", "Exception"}
BcpOutcomes        == {BcpOk} \cup BcpFailures
PullOutcomes       == {Answer(201), Answer(200), Answer(422), AnswerNotObject(201),
                       AnswerNotObject(422), Raise}
ExitOutcomes       == {"ok", "OSError"}

RuleA     == FileRule("A", "A", {}, {})
RuleBtoA  == FileRule("B", "A", {}, {"destination"})
RuleB     == FileRule("B", "B", {}, {})
RuleAtoB1 == FileRule("A", "B", {R1}, {"destination", "exclude_repos"})
RuleB2    == FileRule("B", "B", {R2}, {"exclude_repos"})

MainConfigs ==
    { Config({}, <<>>, {}),
      Config({"files_to_sync"}, <<RuleA>>, {}),
      Config({"files_to_sync", "exclude_repos"}, <<RuleA, RuleB2>>, {R2}),
      Config({"files_to_sync", "exclude_repos"}, <<>>, {ORG_INFRA}),
      Broken(Config({}, <<>>, {}), "document"),
      Broken(Config({"files_to_sync", "exclude_repos"}, <<RuleA>>, {}),
             "exclude_repos") }

\* the command lines of the runs: --dry-run or not, and --repos absent,
\* given without a name, or given with names
Args(dry, given, repos) ==
    [org |-> ORG, dry_run |-> dry, repos_given |-> given, repos |-> repos]

MainArgs ==
    { Args(d, g.given, g.repos) :
        d \in BOOLEAN,
        g \in { [given |-> FALSE, repos |-> <<>>],
                [given |-> TRUE,  repos |-> <<>>],
                [given |-> TRUE,  repos |-> <<R1>>],
                [given |-> TRUE,  repos |-> <<R2, R1>>],
                [given |-> TRUE,  repos |-> <<ORG_INFRA, R2>>] } }

MainSourceTrees == { [A |-> "x", B |-> "y"], [A |-> Absent, B |-> "y"] }

Init ==
    /\ GwIdle /\ SrIdle /\ RemIdle /\ ScIdle
    /\ GITHUB_TOKEN \in BOOLEAN
    /\ args \in MainArgs
    /\ config \in MainConfigs
    /\ source_tree \in MainSourceTrees
    /\ pc = "check_token"
    /\ user_resp = [status |-> 0, body |-> JsonObject, login |-> None]
    /\ fork_owner = None
    /\ peribolos_data = NotFetched
    /\ repositories = <<>>
    /\ idx = 1
    /\ success_count = 0
    /\ calls = <<>>
    /\ verdicts = <<>>

notMain == <<gwVars, inVars, remVars, srVars, scVars>>
notSync == <<gwVars, inVars, mainVars, remVars, scVars>>

CheckToken       == M_CheckToken /\ UNCHANGED notMain
GetUser          == M_GetUser /\ UNCHANGED notMain
LoadConfig       == M_LoadConfig /\ UNCHANGED notMain
FetchPeribolos   == M_FetchPeribolos /\ UNCHANGED notMain
LoopCall         == M_LoopCall /\ UNCHANGED <<gwVars, inVars, scVars>>
LoopReturn       == M_LoopReturn /\ UNCHANGED <<gwVars, inVars, scVars>>
Summary          == M_Summary /\ UNCHANGED notMain
Start            == SR_Start /\ UNCHANGED notSync
ForkCheck        == SR_ForkCheck(ForkCheckOutcomes) /\ UNCHANGED notSync
ForkCreate       == SR_ForkCreate(ForkCreateOutcomes) /\ UNCHANGED notSync
Acquire          == SR_Acquire(AcquireOutcomes) /\ UNCHANGED notSync
Clone            == SR_Clone(CloneOutcomes) /\ UNCHANGED notSync
SyncUpstream     == SR_SyncUpstream(SyncOutcomes) /\ UNCHANGED notSync
Reconcile        == SR_Reconcile(ReconcileOutcomes) /\ UNCHANGED notSync
BranchCommitPush == SR_BranchCommitPush(BcpOutcomes) /\ UNCHANGED notSync
PullRequest      == SR_PullRequest(PullOutcomes) /\ UNCHANGED notSync
ExitWith         == SR_ExitWith(ExitOutcomes) /\ UNCHANGED notSync

Next ==
    \/ CheckToken \/ GetUser \/ LoadConfig \/ FetchPeribolos
    \/ LoopCall \/ LoopReturn \/ Summary
    \/ Start \/ ForkCheck \/ ForkCreate \/ Acquire \/ Clone \/ SyncUpstream
    \/ Reconcile \/ BranchCommitPush \/ PullRequest \/ ExitWith

Spec == Init /\ [][Next]_vars

-----------------------------------------------------------------------------
(* Repeated runs of sync_repository on one repository with fixed inputs,   *)
(* in an environment where nothing fails: run 1 is a dry run, run 2 a real *)
(* run on the same trees, and run 3 a real run after the changes pushed by *)
(* run 2 were applied to the target (pull request merged, fork in sync).   *)

RuleUniverse == {RuleA, RuleBtoA, RuleB, RuleAtoB1, RuleB2}

RunsInit ==
    /\ GwIdle /\ SrIdle
    /\ GITHUB_TOKEN = TRUE
    /\ args = [org |-> ORG, dry_run |-> FALSE, repos_given |-> FALSE, repos |-> <<>>]
    /\ \E rules \in SeqsUpTo(RuleUniverse, MaxRules) :
          config = Config({"files_to_sync"}, rules, {})
    /\ source_tree \in Trees
    /\ upstream_tree \in Trees
    /\ fork_tree = upstream_tree
    /\ pc = "runs"
    /\ user_resp = [status |-> 200, body |-> JsonObject, login |-> BOT]
    /\ fork_owner = BOT
    /\ peribolos_data = NotFetched
    /\ repositories = <<R1>>
    /\ idx = 1
    /\ success_count = 0
    /\ calls = <<>>
    /\ verdicts = <<>>
    /\ run = 1
    /\ history = <<>>

\* sync_repository(org, repo_name, fork_owner, config, dry_run) is called
R_Call ==
    /\ pc = "runs" /\ spc = "idle"
    /\ run <= 3
    /\ EnterSyncRepository(repositories[idx], run = 1)
    /\ calls' = Append(calls, repositories[idx])
    /\ UNCHANGED <<pc, user_resp, fork_owner, peribolos_data, repositories, idx,
                   success_count, verdicts>>
    /\ UNCHANGED <<remVars, scVars>>

\* the call returns; what it pushed, if a pull request was opened for it,
\* becomes the target's tree
R_Return ==
    /\ pc = "runs" /\ spc = "returned"
    /\ history' = Append(history, [files_changed |-> files_changed,
                                    reconciled |-> "reconciled" \in SeqToSet(ops),
                                    ops |-> ops,
                                    result |-> result])
    /\ run' = run + 1
    /\ IF result = "true" /\ pushed.branch # <<>>
       THEN upstream_tree' = pushed.tree /\ fork_tree' = pushed.tree
       ELSE UNCHANGED remVars
    /\ spc' = "idle"
    /\ UNCHANGED mainVars
    /\ UNCHANGED <<stale_dirs, repo_name, dry_run, tmpdir, tree, files_changed, branch_name,
                   status, pushed, ops, result>>

RunsCall             == R_Call /\ UNCHANGED <<gwVars, inVars>>
RunsReturn           == R_Return /\ UNCHANGED <<gwVars, inVars>>
RunsStart            == SR_Start /\ UNCHANGED notSync
RunsForkCheck        == SR_ForkCheck({Answer(200)}) /\ UNCHANGED notSync
RunsAcquire          == SR_Acquire({"ok"}) /\ UNCHANGED notSync
RunsClone            == SR_Clone({"ok"}) /\ UNCHANGED notSync
RunsSyncUpstream     == SR_SyncUpstream({"ok"}) /\ UNCHANGED notSync
RunsReconcile        == SR_Reconcile({"ok"}) /\ UNCHANGED notSync
RunsBranchCommitPush == SR_BranchCommitPush({BcpOk}) /\ UNCHANGED notSync
RunsPullRequest      == SR_PullRequest({Answer(201)}) /\ UNCHANGED notSync
RunsExitWith         == SR_ExitWith({"ok"}) /\ UNCHANGED notSync

RunsNext ==
    \/ RunsCall \/ RunsReturn \/ RunsStart \/ RunsForkCheck \/ RunsAcquire
    \/ RunsClone \/ RunsSyncUpstream \/ RunsReconcile \/ RunsBranchCommitPush
    \/ RunsPullRequest \/ RunsExitWith

SpecRuns == RunsInit /\ [][RunsNext]_vars

-----------------------------------------------------------------------------
(* The five allowed operations, stated on the structure of the endpoint:   *)
(* the GitHub API host followed by a path of slash-separated segments.     *)

RECURSIVE SplitSlash(_, _)
\* the segments of s between slashes; cur is the segment being read
SplitSlash(s, cur) ==
    IF s = <<>> THEN <<cur>>
    ELSE IF Head(s) = "/" THEN <<cur>> \o SplitSlash(Tail(s), <<>>)
    ELSE SplitSlash(Tail(s), Append(cur, Head(s)))

OnApiHost(endpoint) ==
    /\ Len(endpoint) >= Len(GITHUB_API)
    /\ SubSeq(endpoint, 1, Len(GITHUB_API)) = GITHUB_API

PathOf(endpoint) == SubSeq(endpoint, Len(GITHUB_API) + 1, Len(endpoint))

IsRepoPath(segs) ==
    /\ Len(segs) >= 4
    /\ segs[1] = <<>> /\ segs[2] = W_repos /\ segs[3] # <<>> /\ segs[4] # <<>>

IsAllowedOperation(endpoint, method) ==
    /\ OnApiHost(endpoint)
    /\ LET segs == SplitSlash(PathOf(endpoint), <<>>) IN
       \/ method = "GET" /\ segs = << <<>>, W_user >>
       \/ method = "GET" /\ IsRepoPath(segs) /\ Len(segs) = 4
       \/ method = "POST" /\ IsRepoPath(segs) /\ Len(segs) = 5 /\ segs[5] = W_forks
       \/ method = "POST" /\ IsRepoPath(segs) /\ Len(segs) = 5 /\ segs[5] = W_pulls
       \/ /\ method = "DELETE" /\ IsRepoPath(segs) /\ Len(segs) >= 8
          /\ segs[5] = W_git /\ segs[6] = W_refs /\ segs[7] = W_heads
          /\ (Len(segs) > 8 \/ segs[8] # <<>>)

\* C1: every (endpoint, method) pair that is not one of the five allowed
\* operations on the GitHub API host is answered 403 and performs no network
\* request.
C1_RejectedWithoutNetwork ==
    (gw_pc = "returned" /\ ~IsAllowedOperation(gw_endpoint, gw_method))
        => (gw_status = 403 /\ network_calls = 0)

-----------------------------------------------------------------------------
(* Properties of the batch loop and of one attempt *)

Has(op) == op \in SeqToSet(ops)
CountTrue(q) == Cardinality({i \in 1..Len(q) : q[i] = "true"})
files_to_sync_of(cfg) == Get(cfg, "files_to_sync", <<>>)

C2_Counts ==
    /\ pc \in {"loop", "summary"} =>
         /\ Len(calls) <= Len(repositories)
         /\ calls = SubSeq(repositories, 1, Len(calls))
         /\ Len(verdicts) = idx - 1
         /\ success_count = CountTrue(verdicts)
         /\ 0 <= success_count /\ success_count <= Len(repositories)
    /\ pc = "summary" =>
         /\ calls = repositories
         /\ Len(verdicts) = Len(repositories)

\* C2: batch isolation.  Whatever the attempts return or raise, the loop
\* calls sync_repository once for each repository of the list, in order,
\* and the success count is the number of calls that returned success; the
\* run reaches the summary: once in the loop it leaves it only for the
\* summary, and in the loop a step is always possible (every step advances
\* the attempt or the loop index, so the loop ends).
C2_BatchIsolation ==
    /\ [](C2_Counts /\ (pc = "loop" => ENABLED Next))
    /\ [][pc = "loop" => pc' \in {"loop", "summary"}]_vars

\* a run of two repositories where one call raised and the other succeeded
C2_Witness ==
    /\ pc = "summary"
    /\ Len(repositories) = 2
    /\ "raised" \in SeqToSet(verdicts)
    /\ "true" \in SeqToSet(verdicts)
    /\ success_count = 1

\* C3: for fixed source tree, target tree, repository and rules, the
\* changed-file list of the dry run equals that of the real run.
C3_DryRunEqualsRealRun ==
    (Len(history) >= 2 /\ history[1].reconciled /\ history[2].reconciled)
        => history[1].files_changed = history[2].files_changed

NoBranchPushOrPull(o) ==
    SeqToSet(o) \cap {"checkout_b", "add", "commit", "push", "pull_request"} = {}

SecondRunIsQuiet ==
    /\ history[3].files_changed = <<>>
    /\ history[3].result = "true"
    /\ NoBranchPushOrPull(history[3].ops)

\* C4: after a real run that reconciled the target and whose changes were
\* applied to it, the next run against the same source tree finds nothing
\* to change, succeeds, and creates no branch, push or pull request.
C4_Idempotent ==
    (Len(history) >= 3 /\ history[2].reconciled) => SecondRunIsQuiet

DestinationOf(rule) == Get(rule, "destination", rule.source)

DryRunMutatesNothing ==
    dry_run =>
        /\ SeqToSet(ops) \subseteq {"clone", "cloned", "reconciled"}
        /\ status = NoStatus
        /\ pushed = NoPush
        /\ branch_name = <<>>
        /\ IF spc = "returned" /\ tmpdir
           THEN tree \in RemainsOf(upstream_tree)
           ELSE tree \in {NoTree, upstream_tree}

\* C5: a dry run performs no fork check, fork creation, upstream sync,
\* branch, commit, push or pull request and leaves every destination file
\* of the cloned tree as it is (the removal of the temporary directory
\* deletes files and writes none), and it returns success whenever the
\* clone succeeded.
C5_DryRun ==
    /\ DryRunMutatesNothing
    /\ (dry_run /\ spc = "returned" /\ Has("cloned")) => result = "true"

\* C6: a real run with a non-empty files_to_sync that returns a verdict
\* returns success exactly when the reconciliation found nothing to change
\* (and then no branch, push or pull request was made) or the branch was
\* pushed and the pull request was answered 201; any other pull-request
\* status gives failure.
C6_SuccessIff ==
    (/\ spc = "returned" /\ result \in {"true", "false"}
     /\ ~dry_run /\ files_to_sync_of(config) # <<>>) =>
        /\ result = "true" <=>
              \/ (Has("reconciled") /\ files_changed = <<>>)
              \/ (pushed # NoPush /\ status.pr = 201)
        /\ (Has("reconciled") /\ files_changed = <<>>) => NoBranchPushOrPull(ops)
        /\ (status.pr # 0 /\ status.pr # 201) => result = "false"

\* C7: in a real run, when the fork check is not answered 200 and the fork
\* creation is answered neither 200 nor 202, the attempt returns failure
\* with no clone and no later step.
C7_ForkCreationFailure ==
    (/\ ~dry_run
     /\ status.fork_check # 0 /\ status.fork_check # 200
     /\ status.fork_create # 0 /\ status.fork_create # 200
     /\ status.fork_create # 202) =>
        /\ spc \in {"returned", "idle"}
        /\ result = "false"
        /\ ops = <<"fork_check", "fork_create">>
        /\ ~tmpdir /\ tree = NoTree

\* the fork check was answered 404 and the fork creation 500
C7_Witness ==
    /\ ~dry_run /\ spc = "returned"
    /\ status.fork_check = 404 /\ status.fork_create = 500
    /\ result = "false"

\* C8: no exception propagates out of sync_repository.
C8_NothingPropagates == result # "raised"

\* C9: the temporary directory and the tree cloned into it exist only
\* between the with statement and its exit: when sync_repository has
\* returned or raised (whatever the exit path), and when an attempt starts,
\* none is left, of this attempt or of an earlier one.
C9_WorkingTreeRemoved ==
    /\ stale_dirs = 0
    /\ spc \in {"idle", "start", "fork_check", "fork_create", "acquire", "returned"}
          => (~tmpdir /\ tree = NoTree)

\* C10: sync_repository is invoked only when the credential is set, GET
\* /user was answered 200 with a login and the manifest was fetched; when
\* one of these fails the run ends with no repository touched.
C10_StartupOrdering ==
    /\ calls # <<>> =>
          /\ GITHUB_TOKEN
          /\ user_resp.status = 200 /\ user_resp.body = JsonObject
          /\ ~Falsy(user_resp.login)
          /\ peribolos_data.fetched /\ peribolos_data.broken = "no"
    /\ (~GITHUB_TOKEN /\ pc # "check_token") => pc = "exited"
    /\ (user_resp.status # 0 /\ user_resp.body = JsonObject
         /\ (user_resp.status # 200 \/ Falsy(user_resp.login)))
          => pc = "exited"
    /\ (user_resp.status # 0 /\ user_resp.body # JsonObject)
          => pc = IF user_resp.status = 200 THEN "crashed" ELSE "exited"
    /\ (pc \notin {"check_token", "get_user", "load_config", "fetch_peribolos"}
         /\ ~peribolos_data.fetched) => pc \in {"exited", "crashed"}
    /\ peribolos_data.broken # "no" => pc \in {"exited", "crashed"}
    /\ pc \in {"exited", "crashed"} => calls = <<>>

\* a repository is being processed
C10_Witness ==
    /\ Len(calls) = 1 /\ spc = "start"
    /\ GITHUB_TOKEN /\ user_resp.status = 200 /\ peribolos_data.fetched

-----------------------------------------------------------------------------
(* Properties of the repository selection and of the reconciler *)

\* C11: sync_repository is never invoked for the source-of-truth repository
\* (org-infra), whether or not the configuration defines exclude_repos.
C11_OrgInfraNeverSynced == ORG_INFRA \notin SeqToSet(calls)

\* the attempt is past the loop over files_to_sync, which ran to its end, and
\* its working tree still exists
Reconciled ==
    /\ Has("reconciled")
    /\ spc \in {"branch_commit_push", "pull_request", "exit_with"}

SourcePresent(rule) == source_tree[rule.source] # Absent
Excluded(rule) == "exclude_repos" \in rule.keys /\ repo_name \in rule.exclude_repos
NotExcluded(rule) == ~Excluded(rule)

\* C12: rules whose source file is absent from the source tree are skipped,
\* in a dry run and in a real run: the changed-file list and the working
\* tree are those the loop gives without these rules (so the rules after a
\* skipped one are processed), a destination that only such rules name is
\* neither listed nor touched, and the attempt does not fail because of them.
C12_AbsentSourceSkipped ==
    LET rules   == files_to_sync_of(config)
        present == SelectSeq(rules, SourcePresent)
        r       == reconcile(present, Len(present), source_tree, upstream_tree,
                             repo_name, dry_run)
    IN  /\ Reconciled =>
              /\ files_changed = r.files_changed
              /\ tree = r.tree
              /\ \A i \in 1..Len(rules) :
                    (/\ ~SourcePresent(rules[i])
                     /\ \A j \in 1..Len(rules) :
                           SourcePresent(rules[j])
                               => DestinationOf(rules[j]) # DestinationOf(rules[i]))
                    => /\ tree[DestinationOf(rules[i])]
                             = upstream_tree[DestinationOf(rules[i])]
                       /\ DestinationOf(rules[i]) \notin SeqToSet(files_changed)
        /\ (spc = "returned" /\ rules # <<>>) =>
              (Has("reconciled") /\ result = "true")

\* a real run whose first rule has no source file and whose second rule
\* changed its destination, a destination the first rule would have created
C12_Witness ==
    LET rules == files_to_sync_of(config) IN
    /\ Reconciled /\ ~dry_run
    /\ Len(rules) = 2
    /\ ~SourcePresent(rules[1]) /\ SourcePresent(rules[2])
    /\ DestinationOf(rules[1]) # DestinationOf(rules[2])
    /\ upstream_tree[DestinationOf(rules[1])] = Absent
    /\ files_changed = <<DestinationOf(rules[2])>>

\* C13: exclusion precedence.  Rules whose exclude_repos contains the name
\* of the repository produce no changed-file entry and write nothing there:
\* the changed-file list and the working tree are those the loop gives
\* without these rules, and a destination that only such rules name is
\* neither listed nor touched, also when it is missing or differs.
C13_ExclusionPrecedence ==
    LET rules == files_to_sync_of(config)
        kept  == SelectSeq(rules, NotExcluded)
        r     == reconcile(kept, Len(kept), source_tree, upstream_tree,
                           repo_name, dry_run)
    IN  Reconciled =>
            /\ files_changed = r.files_changed
            /\ tree = r.tree
            /\ \A i \in 1..Len(rules) :
                  (/\ Excluded(rules[i])
                   /\ \A j \in 1..Len(rules) :
                         NotExcluded(rules[j])
                             => DestinationOf(rules[j]) # DestinationOf(rules[i]))
                  => /\ tree[DestinationOf(rules[i])]
                           = upstream_tree[DestinationOf(rules[i])]
                     /\ DestinationOf(rules[i]) \notin SeqToSet(files_changed)

\* a real run with a rule that excludes the repository, whose source exists
\* and whose destination is missing or differs, and another rule that
\* changed its own destination
C13_Witness ==
    LET rules == files_to_sync_of(config) IN
    /\ Reconciled /\ ~dry_run
    /\ Len(rules) = 2
    /\ Excluded(rules[1]) /\ SourcePresent(rules[1])
    /\ upstream_tree[DestinationOf(rules[1])] # source_tree[rules[1].source]
    /\ NotExcluded(rules[2])
    /\ DestinationOf(rules[1]) # DestinationOf(rules[2])
    /\ files_changed = <<DestinationOf(rules[2])>>
    /\ tree[DestinationOf(rules[1])] = upstream_tree[DestinationOf(rules[1])]

-----------------------------------------------------------------------------
(* Properties of the states of one attempt *)

\* C14: when the configuration has no files_to_sync (the key is absent or
\* the list is empty), sync_repository returns failure, in a dry run and in
\* a real run, with no API request, no fork creation, no temporary
\* directory and no clone.
C14_NoFilesConfigured ==
    (files_to_sync_of(config) = <<>> /\ calls # <<>>) =>
        /\ spc \in {"start", "returned", "idle"}
        /\ spc = "returned" => result = "false"
        /\ Len(verdicts) = Len(calls) => verdicts = [i \in 1..Len(calls) |-> "false"]
        /\ ops = <<>>
        /\ status = NoStatus /\ pushed = NoPush
        /\ ~tmpdir /\ tree = NoTree

\* a dry run with a configuration that has an empty files_to_sync returned
C14_Witness ==
    /\ spc = "returned" /\ dry_run
    /\ "files_to_sync" \in config.keys /\ config.files_to_sync = <<>>
    /\ result = "false"

\* C15: in a real run a failed sync of the clone with upstream (fetch,
\* checkout or reset) is not fatal.  The step that fails goes on to the
\* reconciliation with the clone as it is and no verdict set, and when the
\* attempt ends its verdict is that of the later states: success when
\* nothing had to change or the pull request was answered 201, failure only
\* when the reconciliation, the branch/commit/push or the pull request
\* failed, an exception only when the temporary directory could not be
\* removed.
C15_SyncFailureNonFatal ==
    /\ [](Has("sync_warning") =>
            /\ ~dry_run
            /\ spc = "reconcile" => (tree = fork_tree /\ result = "none")
            /\ (spc \in {"exit_with", "returned"} /\ Has("reconciled")
                 /\ files_changed = <<>>) => result \in {"true", "raised"}
            /\ result = "true" => (files_changed = <<>> \/ status.pr = 201)
            /\ result = "false" =>
                  \/ ~Has("reconciled")
                  \/ (Has("checkout_b") /\ pushed = NoPush)
                  \/ Has("pull_request")
            /\ result = "raised" => (spc \in {"returned", "idle"} /\ tmpdir))
    /\ [][(spc = "sync_upstream" /\ "sync_warning" \in SeqToSet(ops')) =>
             (spc' = "reconcile" /\ result' = "none" /\ tree' = tree)]_vars

\* the sync with upstream failed, the fork's tree differed from upstream's,
\* and the attempt went on to open a pull request and returned success
C15_Witness ==
    /\ Has("sync_warning") /\ spc = "returned"
    /\ fork_tree # upstream_tree
    /\ status.pr = 201
    /\ result = "true"

\* the git steps of create_branch_and_commit that the attempt tried
BcpTried == SeqToSet(ops) \cap SeqToSet(GitSteps)

\* C16: when a step of the branch/commit/push fails (the branch creation,
\* the staging, the commit or the push: the attempt tried some of these
\* steps and pushed no branch), sync_repository returns failure, no later
\* state is entered and no pull-request request is issued.
C16_GitFailureAborts ==
    (BcpTried # {} /\ pushed = NoPush) =>
        /\ spc \in {"exit_with", "returned", "idle"}
        /\ result = "false"
        /\ ~Has("pull_request")
        /\ status.pr = 0

\* The operations of an attempt and its positions, in the order of the code
OpOrder ==
    <<"fork_check", "fork_create", "clone", "cloned", "sync_upstream",
      "sync_warning", "reconciled", "checkout_b", "add", "commit", "push",
      "pull_request">>

SpcOrder ==
    <<"start", "fork_check", "fork_create", "acquire", "clone", "sync_upstream",
      "reconcile", "branch_commit_push", "pull_request", "exit_with", "returned">>

IndexIn(x, q) == CHOOSE i \in 1..Len(q) : q[i] = x

\* C17: the operations of an attempt happen in the fixed order fork check,
\* fork creation, clone, upstream sync, reconcile, branch/commit/push, pull
\* request, each at most once, and the attempt only moves forward through
\* its positions.  A pull request is requested only after the push of the
\* branch of the same name succeeded, a push is tried only after a
\* reconciliation that found a changed file, and a real run clones only
\* after the fork check was answered 200 or the fork creation 200 or 202.
C17_LinearSequence ==
    /\ [](/\ \A i \in 1..(Len(ops) - 1) :
                IndexIn(ops[i], OpOrder) < IndexIn(ops[i + 1], OpOrder)
          /\ Has("pull_request") =>
                (Has("push") /\ pushed # NoPush /\ pushed.branch = branch_name)
          /\ Has("push") => (Has("reconciled") /\ files_changed # <<>>)
          /\ (~dry_run /\ Has("clone")) =>
                (status.fork_check = 200 \/ status.fork_create \in {200, 202}))
    /\ [][(spc \notin {"idle", "returned"} /\ spc' # spc) =>
             IndexIn(spc, SpcOrder) < IndexIn(spc', SpcOrder)]_vars

\* an attempt that went through every state, the fork creation included
C17_Witness ==
    /\ spc = "returned"
    /\ ops = <<"fork_check", "fork_create", "clone", "cloned", "sync_upstream",
               "reconciled", "checkout_b", "add", "commit", "push",
               "pull_request">>
    /\ status.fork_create = 202
    /\ result = "true"

\* C18: in a real run the fork creation is requested exactly when the fork
\* check was answered a status other than 200.  After a 200 no creation is
\* requested; after any other status (201, 404, a rate limit's 403, the
\* synthetic 500) the creation is the next step; and a creation is never
\* requested without such an answer (nor in a dry run).
C18_ForkCreatedIffAbsent ==
    /\ status.fork_check = 200 => (~Has("fork_create") /\ spc # "fork_create")
    /\ (status.fork_check # 0 /\ status.fork_check # 200) =>
          (spc = "fork_create" \/ Has("fork_create"))
    /\ (spc = "fork_create" \/ Has("fork_create")) =>
          (~dry_run /\ status.fork_check # 0 /\ status.fork_check # 200)

\* the fork check was answered with a rate limit's 403 and the attempt
\* requested the fork creation
C18_Witness ==
    /\ ~dry_run
    /\ status.fork_check = 403
    /\ Has("fork_create") /\ status.fork_create = 202
    /\ Has("cloned")

-----------------------------------------------------------------------------
(* Properties of the program's own requests and of the repository list *)

\* C19: every request an operation of the program passes to
\* github_api_request is accepted by the allow-list and reaches the
\* network, so the operation gets the remote's answer and never the
\* synthetic 403; delete_fork_branch returns True exactly when the remote
\* answers 204.
C19_OperationsAccepted ==
    (gw_pc = "returned" /\ gw_caller \in Operations) =>
        /\ network_calls = 1
        /\ gw_status = gw_remote
        /\ gw_caller = "delete_fork_branch" =>
              (gw_return = "True" <=> gw_remote = 204)

\* the exclusion set the run applies, and the repositories of the manifest
\* that the run is to process
ExclusionSet == Get(config, "exclude_repos", {ORG_INFRA})
ManifestRepos == extract_repositories(peribolos_data, args.org)
Selected(r) ==
    /\ args.repos # <<>> => r \in SeqToSet(args.repos)
    /\ r \notin ExclusionSet

\* C20: the repositories the loop processes are the repositories of the
\* manifest (for the organization) that are in the --repos subset, when
\* names are given, and not in the exclusion set, in the order of the
\* manifest; the calls follow that list.  So a repository named in --repos
\* but absent from the manifest is not processed, an excluded repository is
\* not processed even when --repos names it, and none is processed twice.
C20_ProcessedSequence ==
    pc \in {"loop", "summary"} =>
        /\ SeqToSet(repositories) = {r \in SeqToSet(ManifestRepos) : Selected(r)}
        /\ \A i, j \in 1..Len(repositories) :
              i < j => IndexIn(repositories[i], ManifestRepos)
                          < IndexIn(repositories[j], ManifestRepos)
        /\ calls = SubSeq(repositories, 1, Len(calls))
        /\ pc = "summary" => calls = repositories
        /\ \A r \in SeqToSet(args.repos) :
              r \notin SeqToSet(ManifestRepos) => r \notin SeqToSet(calls)
        /\ \A r \in ExclusionSet : r \notin SeqToSet(calls)
        /\ \A i, j \in 1..Len(calls) : calls[i] = calls[j] => i = j

\* --repos names two repositories in the reverse of the manifest's order
\* and the run processed them in the manifest's order
C20_Witness ==
    /\ pc = "summary"
    /\ args.repos = <<R2, R1>>
    /\ ManifestRepos = <<R1, R2>>
    /\ calls = <<R1, R2>>

\* --repos names an excluded repository and one that the manifest lacks,
\* and the run processed neither
C20_WitnessFiltered ==
    /\ pc = "summary"
    /\ args.repos = <<ORG_INFRA, R2>>
    /\ ManifestRepos = <<ORG_INFRA, R1>>
    /\ ORG_INFRA \in ExclusionSet
    /\ calls = <<>>

====
